---- MODULE Spec2Model ----
(***************************************************************************)
(* UnsteadySolvedODE (aviary/mission/gasp_based/ode/unsteady_solved).      *)
(*                                                                         *)
(* setup() builds a tree of subsystems: the top-level group (self), the    *)
(* control_iter_group (Newton over alpha and thrust_req) and, with         *)
(* balance_throttle, the throttle_balance_group (Newton over throttle).    *)
(* One evaluation of the ODE then runs the children of the top-level group *)
(* once, in the order setup() added them; a group that carries a Newton    *)
(* solver iterates its own children.                                       *)
(*                                                                         *)
(* Numbers.  Unknowns (alpha, thrust_req, throttle) are integers in a      *)
(* fixed unit.  A residual of the outer balance is a power of ten, kept as *)
(* its decimal exponent, so that the tolerances 1e-10 keep their value.    *)
(***************************************************************************)
EXTENDS Integers, Sequences, FiniteSets, TLC

VARIABLES
    \* ---- options (self.options) ----
    ground_roll, balance_throttle, clean, include_param_comp, core_subsystems,
    \* ---- what setup() builds ----
    children,        \* group name -> sequence of the names of its subsystems
    balances,        \* balance component name -> sequence of its balances
    solvers,         \* group name -> its nonlinear solver's options
    promotes,        \* component name -> the name its renamed input is promoted as
    build_calls,     \* the build_mission calls made, in order
    input_defaults,  \* the names given set_input_defaults
    \* ---- behaviour of the pluggable models at each node (inputs) ----
    models,
    \* ---- one evaluation of the ODE ----
    pc,              \* "setup", "run", "outer", "inner", "done", "error"
    topIdx,          \* position in the top-level group's subsystems
    outputs,         \* balance unknown name -> value per node
    residuals,       \* outer balance unknown name -> residual exponent per node
    norm0,           \* the outer residuals at iteration 0
    outerIter, outerStatus,
    outerStep,       \* the last Newton step of the outer solve, per unknown and node
    eomThrust,       \* the thrust eom read at its last evaluation, per node
    thrust_total, fuelflow, dt_dr, dmass_dr,
    innerResiduals, innerNorm0, innerIter, innerStatus,
    innerStep,       \* the last Newton step of the inner solve, per node
    innerRuns,       \* completed (converged) solves of throttle_balance_group
    raised           \* the group whose solver raised, or "none"

cfgVars == <<ground_roll, balance_throttle, clean, include_param_comp, core_subsystems>>
treeVars == <<children, balances, solvers, promotes, build_calls, input_defaults>>
outerVars == <<residuals, norm0, outerIter, outerStatus, outerStep, eomThrust>>
innerVars == <<innerResiduals, innerNorm0, innerIter, innerStatus, innerStep, innerRuns>>
propVars == <<thrust_total, fuelflow>>
vars == <<cfgVars, treeVars, models, pc, topIdx, outputs, outerVars, innerVars, propVars,
          dt_dr, dmass_dr, raised>>

-----------------------------------------------------------------------------
(* Bounds of the model *)

\* num_nodes
NumNodes == 2
\* longest core_subsystems list
MaxSubsystems == 2

Nodes == 1..NumNodes

-----------------------------------------------------------------------------
(* Helpers on sequences *)

RECURSIVE Concat(_)
Concat(ss) == IF ss = <<>> THEN <<>> ELSE Head(ss) \o Concat(Tail(ss))

Range(s) == {s[k] : k \in 1..Len(s)}

\* position of name n in sequence s, 0 when absent
IndexOf(s, n) == IF \E k \in 1..Len(s) : s[k] = n
                 THEN CHOOSE k \in 1..Len(s) : s[k] = n /\ \A j \in 1..(k - 1) : s[j] # n
                 ELSE 0

SeqsUpTo(S, n) == UNION {[1..k -> S] : k \in 0..n}

-----------------------------------------------------------------------------
(* Subsystem builders: the elements of core_subsystems *)

SubsystemNames == <<"core1", "core2", "core3", "core4", "core5", "core6">>

\* isAero: isinstance(subsystem, AerodynamicsBuilderBase)
\* isProp: isinstance(subsystem, PropulsionBuilderBase)
\* builds: build_mission returns a system (not None)
BuilderKinds == [isAero : BOOLEAN, isProp : BOOLEAN, builds : BOOLEAN]

Builder(kind, k) == [name |-> SubsystemNames[k], isAero |-> kind.isAero,
                     isProp |-> kind.isProp, builds |-> kind.builds]

AllCoreSubsystems ==
    {[k \in 1..Len(ks) |-> Builder(ks[k], k)] : ks \in SeqsUpTo(BuilderKinds, MaxSubsystems)}

AeroKind == [isAero |-> TRUE, isProp |-> FALSE, builds |-> TRUE]
PropKind == [isAero |-> FALSE, isProp |-> TRUE, builds |-> TRUE]

\* the usual list: aerodynamics and propulsion
DefaultCoreSubsystems == {<<Builder(AeroKind, 1), Builder(PropKind, 2)>>}

-----------------------------------------------------------------------------
(* setup() *)

\* kwargs of build_mission / mission_inputs / mission_outputs
BuildKwargs(isClean) ==
    IF isClean THEN [method |-> "cruise", output_alpha |-> "False"]
               ELSE [method |-> "low_speed", output_alpha |-> "absent"]

\* variant: the aerodynamics branch is missing
TargetGroupNoAeroTest(subsystem, balance) ==
    IF subsystem.isProp /\ balance THEN "throttle_balance_group" ELSE "self"

\* the group a built system is added to (if / elif / else on the builder)
TargetGroup(subsystem, balance) ==
    IF subsystem.isAero THEN "control_iter_group"
    ELSE IF subsystem.isProp /\ balance THEN "throttle_balance_group"
    ELSE "self"

BuildCalls(subsystems, isClean) ==
    [k \in 1..Len(subsystems) |->
        [name |-> subsystems[k].name, kwargs |-> BuildKwargs(isClean)]]

-----------------------------------------------------------------------------
(* Values and units *)

\* throttle is counted in steps of 1/(2*ThrottleHalf): 0.5 is ThrottleHalf steps
ThrottleHalf == 2
ThrottleLower == 0
ThrottleUpper == 2 * ThrottleHalf
\* val of the throttle balance: np.ones(nn) * 0.5
ThrottleInit == ThrottleHalf

\* val of the alpha balance: np.zeros(nn)
AlphaInit == 0
\* val of the thrust_req balance: 100*np.ones(nn)
ThrustReqInit == 100

\* atol = rtol = 1.0e-10, as decimal exponents
AtolExp == -10
RtolExp == -10
\* om.NewtonSolver's maxiter when none is given
MaxIter == 10

\* a balance of an om.BalanceComp; bounded is FALSE when add_balance gives no
\* lower/upper
Balance(name, val, lhs, rhs, normalize, bounded, lower, upper) ==
    [name |-> name, val |-> val, lhs |-> lhs, rhs |-> rhs, normalize |-> normalize,
     bounded |-> bounded, lower |-> lower, upper |-> upper]

\* variant: lower and upper are not given
ThrottleBalanceUnbounded ==
    Balance("throttle", ThrottleInit, "thrust_total", "thrust_req", TRUE, FALSE, 0, 0)

\* throttle_balance_comp.add_balance(Dynamic.Mission.THROTTLE, ...)
ThrottleBalance ==
    Balance("throttle", ThrottleInit, "thrust_total", "thrust_req", TRUE,
            TRUE, ThrottleLower, ThrottleUpper)

\* thrust_alpha_bal.add_balance("alpha", ...)
AlphaBalance ==
    Balance("alpha", AlphaInit, "dgam_dt_approx", "dgam_dt", FALSE, FALSE, 0, 0)

\* variant: thrust_req is kept physical, lower = 0
ThrustReqBalanceNonNegative ==
    Balance("thrust_req", ThrustReqInit, "dTAS_dt_approx", "dTAS_dt", FALSE, TRUE, 0, 100000)

\* thrust_alpha_bal.add_balance("thrust_req", ...)
ThrustReqBalance ==
    Balance("thrust_req", ThrustReqInit, "dTAS_dt_approx", "dTAS_dt", FALSE, FALSE, 0, 0)

\* variant: the alpha balance is added whatever ground_roll is
ThrustAlphaBalancesAlways(isGroundRoll) == <<AlphaBalance, ThrustReqBalance>>

\* the balances of thrust_alpha_bal
ThrustAlphaBalances(isGroundRoll) ==
    (IF ~isGroundRoll THEN <<AlphaBalance>> ELSE <<>>) \o <<ThrustReqBalance>>

\* om.NewtonSolver(solve_subsystems=True, atol=1.0e-10, rtol=1.0e-10); the
\* linesearch of a NewtonSolver is BoundsEnforceLS unless another is set
NewtonSolver(err) ==
    [kind |-> "NewtonSolver", solve_subsystems |-> TRUE, maxiter |-> MaxIter,
     atolExp |-> AtolExp, rtolExp |-> RtolExp, err_on_non_converge |-> err,
     linesearch |-> "BoundsEnforceLS"]

\* a group that is given no solver runs its subsystems once
RunOnce ==
    [kind |-> "NonlinearRunOnce", solve_subsystems |-> FALSE, maxiter |-> 1,
     atolExp |-> AtolExp, rtolExp |-> RtolExp, err_on_non_converge |-> FALSE,
     linesearch |-> "none"]

\* variant: err_on_non_converge set on control_iter_group too
ControlIterSolverRaising == NewtonSolver(TRUE)

\* control_iter_group.nonlinear_solver: err_on_non_converge is left at its default
ControlIterSolver == NewtonSolver(FALSE)

\* variant: err_on_non_converge is not set
ThrottleBalanceSolverLenient == NewtonSolver(FALSE)

\* throttle_balance_group.nonlinear_solver, options['err_on_non_converge'] = True
ThrottleBalanceSolver == NewtonSolver(TRUE)

\* variant: throttle_balance_group nested in control_iter_group
ThrottleGroupParentNested == "control_iter_group"

\* the group throttle_balance_group is added to: self.add_subsystem
ThrottleGroupParent == "self"

\* variant: the input keeps its own name
EomThrustNameUnrenamed == "thrust_total"

\* the name eom's Dynamic.Mission.THRUST_TOTAL input is promoted as
EomThrustName == "thrust_req"

\* the group the mass_rate ExecComp is added to
MassRateParent == "self"

Add(parent, name) == [parent |-> parent, name |-> name]

\* the add_subsystem calls of setup(), in program order
AddCalls(isGroundRoll, balance, withParams, subsystems) ==
    (IF withParams THEN <<Add("self", "params"), Add("self", "input_port")>> ELSE <<>>)
    \o <<Add("self", "USatm"), Add("self", "flight_path_angle"), Add("self", "fc"),
         Add("self", "control_iter_group")>>
    \o (IF balance
        THEN <<Add(ThrottleGroupParent, "throttle_balance_group"),
               Add("throttle_balance_group", "throttle_balance_comp")>>
        ELSE <<>>)
    \o Concat([k \in 1..Len(subsystems) |->
                  IF subsystems[k].builds
                  THEN <<Add(TargetGroup(subsystems[k], balance), subsystems[k].name)>>
                  ELSE <<>>])
    \o <<Add("control_iter_group", "eom"), Add("control_iter_group", "thrust_alpha_bal"),
         Add(MassRateParent, "mass_rate")>>

\* the subsystems of group g, in the order they were added
ChildrenOf(g, adds) ==
    Concat([k \in 1..Len(adds) |-> IF adds[k].parent = g THEN <<adds[k].name>> ELSE <<>>])

InputDefaults(isGroundRoll) ==
    {"rho", "speed_of_sound", "TAS", "altitude", "dh_dr", "d2h_dr2"}
    \cup (IF ~isGroundRoll THEN {"flight_path_angle"} ELSE {})

ExistingGroups(balance) ==
    {"self", "control_iter_group"}
    \cup (IF balance THEN {"throttle_balance_group"} ELSE {})

SolverOf(g) ==
    IF g = "control_iter_group" THEN ControlIterSolver
    ELSE IF g = "throttle_balance_group" THEN ThrottleBalanceSolver
    ELSE RunOnce

\* every balance component with its balances
BalanceComps(isGroundRoll, balance) ==
    [c \in {"thrust_alpha_bal"}
           \cup (IF balance THEN {"throttle_balance_comp"} ELSE {}) |->
        IF c = "thrust_alpha_bal" THEN ThrustAlphaBalances(isGroundRoll)
        ELSE <<ThrottleBalance>>]

AllBalances(bal) == UNION {Range(bal[c]) : c \in DOMAIN bal}

BalanceOf(bal, n) == CHOOSE b \in AllBalances(bal) : b.name = n

Setup ==
    /\ pc = "setup"
    /\ LET adds == AddCalls(ground_roll, balance_throttle, include_param_comp,
                            core_subsystems)
           bal  == BalanceComps(ground_roll, balance_throttle)
       IN  /\ children' = [g \in ExistingGroups(balance_throttle) |-> ChildrenOf(g, adds)]
           /\ balances' = bal
           /\ outputs' = [n \in {b.name : b \in AllBalances(bal)} |->
                             [i \in Nodes |-> BalanceOf(bal, n).val]]
    /\ solvers' = [g \in ExistingGroups(balance_throttle) |-> SolverOf(g)]
    /\ promotes' = [eom |-> EomThrustName, mass_rate |-> "fuel_flow_rate_negative_total"]
    /\ build_calls' = BuildCalls(core_subsystems, clean)
    /\ input_defaults' = InputDefaults(ground_roll)
    /\ pc' = "run"
    /\ topIdx' = 1
    /\ UNCHANGED <<cfgVars, models, outerVars, innerVars, propVars, dt_dr, dmass_dr, raised>>

-----------------------------------------------------------------------------
(* The pluggable models and the trajectory, as seen by the solvers.         *)
(*                                                                         *)
(* Aerodynamics, propulsion, eom and fc are supplied from outside this     *)
(* file.  What the solvers see of them is drawn per node at the start:     *)
(*   drive  the first Newton step of thrust_req (it may make thrust_req    *)
(*          negative, or larger than the propulsion model can deliver);    *)
(*   rateT  the decades the speed residual loses per Newton iteration      *)
(*          (0: the iteration stalls and keeps stepping by drive);         *)
(*   rateG  the same for the flight-path-angle residual.                   *)
(* Every residual of the outer balance starts at 10^ExpStart.  The         *)
(* propulsion model is linear in throttle.                                 *)

\* decimal exponent of every outer residual at the initial guess
ExpStart == 1
\* decades of residual told apart below ExpStart
FloorDecades == 12
\* the smallest residual exponent told apart
ExpFloor == ExpStart - FloorDecades
\* decades a residual loses per Newton iteration (0: the iteration stalls)
TasRates == {0, 5, 12}
GamRates == {5, 12}
\* the first Newton step of thrust_req
ThrustDrives == {-150, 50, 150}
\* the first Newton step of alpha
AlphaDrive == 3
\* thrust delivered per throttle step
ThrustPerStep == 50

\* with ground_roll there is no flight-path-angle residual: one rateG is enough
ModelChoices(isGroundRoll) ==
    [drive : ThrustDrives, rateT : TasRates,
     rateG : IF isGroundRoll THEN {12} ELSE GamRates]

Max(a, b) == IF a >= b THEN a ELSE b
Min(a, b) == IF a <= b THEN a ELSE b

\* the propulsion model: net thrust and (negative) fuel flow at a throttle
PropulsionThrust(th) == ThrustPerStep * th
PropulsionFuelFlow(th) == -(th + 1)

\* fc: time per unit range at node i, from the prescribed trajectory
DtDr(i) == i

\* exponent of a residual that started at ExpStart, after k iterations at rate r
ResidualExp(r, k) == Max(ExpFloor, ExpStart - r * k)

RateOf(n, i) == IF n = "alpha" THEN models[i].rateG ELSE models[i].rateT
DriveOf(n, i) == IF n = "alpha" THEN AlphaDrive ELSE models[i].drive

-----------------------------------------------------------------------------
(* Solver steps *)

\* square of a residual norm as digits in base 100: digit e counts the
\* components 10^e (fewer than 100 components)
Digits(res, lo, hi) ==
    [e \in lo..hi |-> Cardinality({k \in DOMAIN res : res[k] = e})]

DigitsLess(a, b) ==
    \E e \in DOMAIN a : /\ a[e] < b[e]
                        /\ \A f \in DOMAIN a : f > e => a[f] = b[f]

\* residuals of several unknowns as one vector
Flat(res) ==
    [p \in {<<n, i>> : n \in DOMAIN res, i \in Nodes} |-> res[p[1]][p[2]]]

\* the digits of one component 10^x
OneDigit(x, lo, hi) == [e \in lo..hi |-> IF e = x THEN 1 ELSE 0]

\* the digits of (10^shift * norm of res0)^2
ShiftedDigits(res0, shift, lo, hi) ==
    [e \in lo..hi |-> Cardinality({k \in DOMAIN res0 : res0[k] + shift = e})]

\* variant: one component within atol is enough
ConvergedSomeComponent(res, res0, solver) ==
    \E k \in DOMAIN res : res[k] <= solver.atolExp

\* the solver's test on the residual norm: norm <= atol or norm / norm0 <= rtol
Converged(res, res0, solver) ==
    LET lo == Min(ExpFloor, solver.atolExp) + Min(solver.rtolExp, 0)
        hi == Max(ExpStart, solver.atolExp) + 1
        n  == Digits(res, lo, hi)
        a  == OneDigit(solver.atolExp, lo, hi)
        r  == ShiftedDigits(res0, solver.rtolExp, lo, hi)
    IN  \/ ~DigitsLess(a, n)
        \/ ~DigitsLess(r, n)

\* BoundsEnforceLS: an unknown with bounds is put back inside them
Enforce(solver, b, v) ==
    IF solver.linesearch = "BoundsEnforceLS" /\ b.bounded
    THEN Max(b.lower, Min(b.upper, v))
    ELSE v

\* what ends a solve: "converged", "warned" (not converged, reported as a
\* warning) or "raised" (not converged, AnalysisError)
Outcome(conv, solver) ==
    IF conv THEN "converged"
    ELSE IF solver.err_on_non_converge THEN "raised"
    ELSE "warned"

-----------------------------------------------------------------------------
(* One evaluation: the top-level group runs its subsystems once, in order *)

Top == children["self"]
AtTop == pc = "run" /\ topIdx <= Len(Top)
Cur == Top[topIdx]

IsPropulsion(name) ==
    \E k \in 1..Len(core_subsystems) :
        core_subsystems[k].name = name /\ core_subsystems[k].isProp

HasPropulsion(g) == \E k \in 1..Len(children[g]) : IsPropulsion(children[g][k])

\* throttle seen by the propulsion model: the balance's unknown when there is
\* one, the input's value otherwise
ThrottleAt(out, i) ==
    IF "throttle" \in DOMAIN out THEN out["throttle"][i] ELSE ThrottleInit

\* the value of the variable eom's thrust input is connected to
ReadThrust(out, i) ==
    IF promotes.eom = "thrust_req" THEN out["thrust_req"][i] ELSE thrust_total[i]

\* a component of the top-level group other than the two groups and mass_rate
RunComponent ==
    /\ AtTop
    /\ Cur \notin {"control_iter_group", "throttle_balance_group", "mass_rate"}
    /\ dt_dr' = IF Cur = "fc" THEN [i \in Nodes |-> DtDr(i)] ELSE dt_dr
    /\ thrust_total' = IF IsPropulsion(Cur)
                       THEN [i \in Nodes |-> PropulsionThrust(ThrottleAt(outputs, i))]
                       ELSE thrust_total
    /\ fuelflow' = IF IsPropulsion(Cur)
                   THEN [i \in Nodes |-> PropulsionFuelFlow(ThrottleAt(outputs, i))]
                   ELSE fuelflow
    /\ topIdx' = topIdx + 1
    /\ UNCHANGED <<cfgVars, treeVars, models, pc, outputs, outerVars, innerVars,
                   dmass_dr, raised>>

(* control_iter_group: Newton over the unknowns of thrust_alpha_bal *)

OuterUnknowns == {b.name : b \in Range(balances["thrust_alpha_bal"])}
OuterSolver == solvers["control_iter_group"]
OuterConverged == Converged(Flat(residuals), Flat(norm0), OuterSolver)

\* the Newton step of unknown n at node i
OuterNewtonStep(n, i) ==
    IF RateOf(n, i) = 0 \/ outerIter = 0 THEN DriveOf(n, i) ELSE 0

\* the first evaluation of the group: aerodynamics, eom, thrust_alpha_bal
OuterInit ==
    /\ AtTop
    /\ Cur = "control_iter_group"
    /\ pc' = "outer"
    /\ residuals' = [n \in OuterUnknowns |-> [i \in Nodes |-> ResidualExp(RateOf(n, i), 0)]]
    /\ norm0' = residuals'
    /\ outerIter' = 0
    /\ outerStatus' = "iterating"
    /\ outerStep' = [n \in OuterUnknowns |-> [i \in Nodes |-> 0]]
    /\ eomThrust' = [i \in Nodes |-> ReadThrust(outputs, i)]
    /\ UNCHANGED <<cfgVars, treeVars, models, topIdx, outputs, innerVars, propVars,
                   dt_dr, dmass_dr, raised>>

\* one Newton iteration: linear solve, line search, subsystems, residual
OuterIterate ==
    /\ pc = "outer"
    /\ outerStatus = "iterating"
    /\ outerIter < OuterSolver.maxiter
    /\ ~OuterConverged
    /\ outerStep' = [n \in OuterUnknowns |-> [i \in Nodes |-> OuterNewtonStep(n, i)]]
    /\ outputs' = [n \in DOMAIN outputs |->
                      IF n \in OuterUnknowns
                      THEN [i \in Nodes |->
                               Enforce(OuterSolver, BalanceOf(balances, n),
                                       outputs[n][i] + outerStep'[n][i])]
                      ELSE outputs[n]]
    /\ eomThrust' = [i \in Nodes |-> ReadThrust(outputs', i)]
    /\ residuals' = [n \in OuterUnknowns |->
                        [i \in Nodes |-> ResidualExp(RateOf(n, i), outerIter + 1)]]
    /\ outerIter' = outerIter + 1
    /\ UNCHANGED <<cfgVars, treeVars, models, pc, topIdx, norm0, outerStatus, innerVars,
                   propVars, dt_dr, dmass_dr, raised>>

\* the loop ends: converged, or the iteration budget is spent
OuterFinish ==
    /\ pc = "outer"
    /\ outerStatus = "iterating"
    /\ (OuterConverged \/ outerIter >= OuterSolver.maxiter)
    /\ outerStatus' = Outcome(OuterConverged, OuterSolver)
    /\ IF outerStatus' = "raised"
       THEN pc' = "error" /\ raised' = "control_iter_group" /\ topIdx' = topIdx
       ELSE pc' = "run" /\ raised' = raised /\ topIdx' = topIdx + 1
    /\ UNCHANGED <<cfgVars, treeVars, models, outputs, residuals, norm0, outerIter,
                   outerStep, eomThrust, innerVars, propVars, dt_dr, dmass_dr>>

(* throttle_balance_group: Newton over throttle *)

InnerSolver == solvers["throttle_balance_group"]
InnerConverged ==
    Converged(innerResiduals, innerNorm0, InnerSolver)

\* (thrust_total - thrust_req) / thrust_req, as an exponent
InnerResidualExp(delivered, required) ==
    IF delivered = required THEN ExpFloor ELSE 0

\* the Newton step of throttle at node i, for the propulsion model's slope
InnerNewtonStep(i) ==
    (outputs["thrust_req"][i] - thrust_total[i]) \div ThrustPerStep

\* the first evaluation of the group: throttle_balance_comp, propulsion
InnerInit ==
    /\ AtTop
    /\ Cur = "throttle_balance_group"
    /\ pc' = "inner"
    /\ thrust_total' = IF HasPropulsion("throttle_balance_group")
                       THEN [i \in Nodes |-> PropulsionThrust(ThrottleAt(outputs, i))]
                       ELSE thrust_total
    /\ fuelflow' = IF HasPropulsion("throttle_balance_group")
                   THEN [i \in Nodes |-> PropulsionFuelFlow(ThrottleAt(outputs, i))]
                   ELSE fuelflow
    /\ innerResiduals' = [i \in Nodes |->
                             InnerResidualExp(thrust_total'[i], outputs["thrust_req"][i])]
    /\ innerNorm0' = innerResiduals'
    /\ innerIter' = 0
    /\ innerStatus' = "iterating"
    /\ innerStep' = [i \in Nodes |-> 0]
    /\ UNCHANGED <<cfgVars, treeVars, models, topIdx, outputs, outerVars, innerRuns,
                   dt_dr, dmass_dr, raised>>

InnerIterate ==
    /\ pc = "inner"
    /\ innerStatus = "iterating"
    /\ innerIter < InnerSolver.maxiter
    /\ ~InnerConverged
    /\ innerStep' = [i \in Nodes |-> InnerNewtonStep(i)]
    /\ outputs' = [outputs EXCEPT !["throttle"] =
                      [i \in Nodes |->
                          Enforce(InnerSolver, BalanceOf(balances, "throttle"),
                                  outputs["throttle"][i] + innerStep'[i])]]
    /\ thrust_total' = IF HasPropulsion("throttle_balance_group")
                       THEN [i \in Nodes |-> PropulsionThrust(ThrottleAt(outputs', i))]
                       ELSE thrust_total
    /\ fuelflow' = IF HasPropulsion("throttle_balance_group")
                   THEN [i \in Nodes |-> PropulsionFuelFlow(ThrottleAt(outputs', i))]
                   ELSE fuelflow
    /\ innerResiduals' = [i \in Nodes |->
                             InnerResidualExp(thrust_total'[i], outputs["thrust_req"][i])]
    /\ innerIter' = innerIter + 1
    /\ UNCHANGED <<cfgVars, treeVars, models, pc, topIdx, outerVars, innerNorm0,
                   innerStatus, innerRuns, dt_dr, dmass_dr, raised>>

InnerFinish ==
    /\ pc = "inner"
    /\ innerStatus = "iterating"
    /\ (InnerConverged \/ innerIter >= InnerSolver.maxiter)
    /\ innerStatus' = Outcome(InnerConverged, InnerSolver)
    /\ innerRuns' = IF InnerConverged THEN innerRuns + 1 ELSE innerRuns
    /\ IF innerStatus' = "raised"
       THEN pc' = "error" /\ raised' = "throttle_balance_group" /\ topIdx' = topIdx
       ELSE pc' = "run" /\ raised' = raised /\ topIdx' = topIdx + 1
    /\ UNCHANGED <<cfgVars, treeVars, models, outputs, outerVars, innerResiduals,
                   innerNorm0, innerIter, innerStep, propVars, dt_dr, dmass_dr>>

(* mass_rate: om.ExecComp("dmass_dr = fuelflow * dt_dr") *)

\* variant: a sum
MassRateSum(ff, dt) == [i \in Nodes |-> ff[i] + dt[i]]

MassRateComp(ff, dt) == [i \in Nodes |-> ff[i] * dt[i]]

MassRate ==
    /\ AtTop
    /\ Cur = "mass_rate"
    /\ dmass_dr' = MassRateComp(fuelflow, dt_dr)
    /\ topIdx' = topIdx + 1
    /\ UNCHANGED <<cfgVars, treeVars, models, pc, outputs, outerVars, innerVars,
                   propVars, dt_dr, raised>>

\* every subsystem of the top-level group has run
Finish ==
    /\ pc = "run"
    /\ topIdx > Len(Top)
    /\ pc' = "done"
    /\ UNCHANGED <<cfgVars, treeVars, models, topIdx, outputs, outerVars, innerVars,
                   propVars, dt_dr, dmass_dr, raised>>

-----------------------------------------------------------------------------
(* Specifications *)

NoTree == [g \in {} |-> <<>>]
Zeros == [i \in Nodes |-> 0]

InitRun ==
    /\ pc = "setup"
    /\ topIdx = 0
    /\ children = NoTree /\ balances = NoTree /\ solvers = NoTree /\ promotes = NoTree
    /\ build_calls = <<>>
    /\ input_defaults = {}
    /\ outputs = NoTree /\ residuals = NoTree /\ norm0 = NoTree /\ outerStep = NoTree
    /\ outerIter = 0 /\ outerStatus = "idle"
    /\ eomThrust = Zeros /\ thrust_total = Zeros /\ fuelflow = Zeros
    /\ dt_dr = Zeros /\ dmass_dr = Zeros
    /\ innerResiduals = Zeros /\ innerNorm0 = Zeros /\ innerStep = Zeros
    /\ innerIter = 0 /\ innerStatus = "idle" /\ innerRuns = 0
    /\ raised = "none"

\* one evaluation, for the usual subsystems and every behaviour of the models
Init ==
    /\ ground_roll \in BOOLEAN
    /\ balance_throttle \in BOOLEAN
    /\ clean = FALSE
    /\ include_param_comp = TRUE
    /\ core_subsystems \in DefaultCoreSubsystems
    /\ models \in [Nodes -> ModelChoices(ground_roll)]
    /\ InitRun

Next ==
    \/ Setup
    \/ RunComponent
    \/ OuterInit
    \/ OuterIterate
    \/ OuterFinish
    \/ InnerInit
    \/ InnerIterate
    \/ InnerFinish
    \/ MassRate
    \/ Finish

Spec == Init /\ [][Next]_vars

\* setup() alone, for every option and every list of subsystems
InitSetup ==
    /\ ground_roll \in BOOLEAN
    /\ balance_throttle \in BOOLEAN
    /\ clean \in BOOLEAN
    /\ include_param_comp \in BOOLEAN
    /\ core_subsystems \in AllCoreSubsystems
    /\ models = [i \in Nodes |-> [drive |-> 50, rateT |-> 12, rateG |-> 12]]
    /\ InitRun

NextSetup == Setup

SpecSetup == InitSetup /\ [][NextSetup]_vars

-----------------------------------------------------------------------------
(* Properties *)

CIG == "control_iter_group"
TBG == "throttle_balance_group"
Built == pc # "setup"
Ended == pc \in {"done", "error"}
ThrustReq(i) == outputs["thrust_req"][i]
Throttle(i) == outputs["throttle"][i]
MaxThrust == PropulsionThrust(ThrottleUpper)
\* the outer solve spent its iteration budget without meeting the tolerance
OuterExhausted == outerStatus \in {"warned", "raised"}

(* C1 as stated: when the outer solve exhausts its iteration budget without
   meeting the tolerance, the solve ends in an error and the run never
   completes normally. *)
C1_ExhaustedOuterSolveFails ==
    OuterExhausted => (outerStatus = "raised" /\ pc # "done")

(* C1 amended: an outer solve that exhausts its budget (10 iterations) without
   meeting the tolerance is only reported as a warning: control_iter_group
   never raises, the evaluation goes on to the subsystems after it, and the
   only solver that can end the run in an error is throttle_balance_group. *)
C1_ExhaustedOuterSolveOnlyWarns ==
    /\ raised # CIG
    /\ OuterExhausted =>
          /\ outerStatus = "warned"
          /\ outerIter = MaxIter
          /\ ~OuterConverged
          /\ (pc = "error" => balance_throttle /\ raised = TBG)
          /\ (~balance_throttle => pc \in {"run", "done"})
    /\ pc = "error" => raised = TBG

C1_Witness ==
    /\ OuterExhausted
    /\ pc = "done"
    /\ \E i \in Nodes : ThrustReq(i) # ThrustReqInit

(* C2 as stated: with balance_throttle, every outer Newton iteration is
   preceded, in that iteration, by a completed inner solve. *)
C2_InnerSolveInEveryOuterIteration ==
    (balance_throttle /\ Built) => innerRuns >= outerIter

(* C2 amended: with balance_throttle, throttle_balance_group is a subsystem of
   the top-level group, placed right after control_iter_group and not inside
   it: no inner solve runs during the outer iterations, and the inner solve
   runs once per evaluation, after the outer solve has ended. *)
C2_InnerSolveFollowsOuterSolve ==
    (balance_throttle /\ Built) =>
        /\ IndexOf(Top, TBG) = IndexOf(Top, CIG) + 1
        /\ IndexOf(children[CIG], TBG) = 0
        /\ (outerStatus \in {"idle", "iterating"} => innerStatus = "idle" /\ innerRuns = 0)
        /\ (innerStatus # "idle" => outerStatus \in {"converged", "warned"})
        /\ innerRuns <= 1

C2_Witness ==
    /\ balance_throttle
    /\ pc = "done"
    /\ outerIter >= 2
    /\ innerRuns = 1
    /\ innerIter >= 1

(* C3 as stated: with balance_throttle, eom does not take thrust_req as its
   thrust; the thrust of the speed residual is the thrust the propulsion model
   delivers at the throttle of the inner solver. *)
C3_EomUsesDeliveredThrust ==
    (balance_throttle /\ Ended) =>
        /\ promotes.eom # "thrust_req"
        /\ \A i \in Nodes : eomThrust[i] = PropulsionThrust(Throttle(i))

(* C3 amended: eom's thrust input is promoted as thrust_req whether or not
   balance_throttle is set, so every evaluation of the speed residual uses the
   outer unknown thrust_req itself; with balance_throttle the inner solve, when
   it converges, makes the delivered thrust equal to that thrust_req. *)
C3_EomUsesThrustReq ==
    Built =>
        /\ promotes.eom = "thrust_req"
        /\ (outerStatus # "idle" => \A i \in Nodes : eomThrust[i] = ThrustReq(i))
        /\ (innerStatus = "converged" => \A i \in Nodes : thrust_total[i] = ThrustReq(i))

C3_Witness ==
    /\ balance_throttle
    /\ pc = "error"
    /\ \E i \in Nodes : /\ eomThrust[i] = ThrustReq(i)
                        /\ eomThrust[i] # PropulsionThrust(Throttle(i))

(* C4 as stated: with balance_throttle, when the required thrust of a node
   exceeds the largest thrust the propulsion model delivers (and every other
   node asks for a thrust it can deliver), the solve does not abort: it
   completes with throttle = 1.0 at that node. *)
C4_SaturationCompletes ==
    (/\ balance_throttle
     /\ Ended
     /\ \E i \in Nodes : ThrustReq(i) > MaxThrust
     /\ \A i \in Nodes : ThrustReq(i) >= 0)
    => /\ pc = "done"
       /\ \A i \in Nodes : ThrustReq(i) > MaxThrust => Throttle(i) = ThrottleUpper

(* C4 amended: with balance_throttle, when the required thrust of a node
   exceeds the largest thrust the propulsion model delivers, the inner solve
   holds throttle at 1.0 at that node, spends its iteration budget without
   meeting the tolerance and raises: the evaluation ends in an error and
   mass_rate is not computed. *)
C4_SaturationRaises ==
    (/\ balance_throttle
     /\ innerStatus \notin {"idle", "iterating"}
     /\ \E i \in Nodes : ThrustReq(i) > MaxThrust)
    => /\ innerStatus = "raised"
       /\ pc = "error"
       /\ raised = TBG
       /\ innerIter = MaxIter
       /\ \A i \in Nodes : ThrustReq(i) > MaxThrust => Throttle(i) = ThrottleUpper
       /\ dmass_dr = Zeros

C4_Witness ==
    /\ pc = "error"
    /\ \E i \in Nodes : ThrustReq(i) > MaxThrust /\ Throttle(i) = ThrottleUpper
    /\ \E j \in Nodes : thrust_total[j] = ThrustReq(j) /\ Throttle(j) # ThrottleInit

(* C5: with ground_roll the outer balance has one unknown per node,
   thrust_req, driven by dTAS_dt_approx = dTAS_dt, and neither an alpha
   unknown nor a dgam_dt residual; without ground_roll it has alpha (driven by
   dgam_dt_approx = dgam_dt) and thrust_req.  The thrust_req balance is the
   same in both modes. *)
C5_OuterUnknowns ==
    Built =>
        LET bal == balances["thrust_alpha_bal"]
            tr  == bal[Len(bal)]
        IN  /\ Len(bal) = IF ground_roll THEN 1 ELSE 2
            /\ tr = [name |-> "thrust_req", val |-> 100, lhs |-> "dTAS_dt_approx",
                     rhs |-> "dTAS_dt", normalize |-> FALSE, bounded |-> FALSE,
                     lower |-> 0, upper |-> 0]
            /\ ~ground_roll =>
                  /\ bal[1].name = "alpha"
                  /\ bal[1].lhs = "dgam_dt_approx"
                  /\ bal[1].rhs = "dgam_dt"
            /\ ground_roll =>
                  /\ "alpha" \notin DOMAIN outputs
                  /\ \A k \in 1..Len(bal) : bal[k].lhs # "dgam_dt_approx"
            /\ DOMAIN outputs \ {"throttle"} = {bal[k].name : k \in 1..Len(bal)}
            /\ \A n \in DOMAIN outputs : DOMAIN outputs[n] = Nodes
            /\ outerStatus # "idle" =>
                  DOMAIN residuals = IF ground_roll THEN {"thrust_req"}
                                     ELSE {"alpha", "thrust_req"}

C5_Witness ==
    /\ ground_roll
    /\ pc = "done"
    /\ outerIter >= 1
    /\ DOMAIN residuals = {"thrust_req"}

(* C6: with balance_throttle, throttle stays within [0, 1] at every node in
   every state: it starts at 0.5 and is within the bounds after every inner
   Newton update, also when the step alone would leave the interval. *)
C6_ThrottleWithinBounds ==
    (balance_throttle /\ Built) =>
        \A i \in Nodes :
            /\ Throttle(i) >= 0
            /\ Throttle(i) <= 2 * ThrottleHalf
            /\ innerIter = 0 => Throttle(i) = ThrottleHalf

C6_Witness ==
    /\ balance_throttle
    /\ innerIter = 1
    /\ \E i \in Nodes : /\ ThrottleHalf + innerStep[i] > ThrottleUpper
                        /\ Throttle(i) = ThrottleUpper
    /\ \E j \in Nodes : /\ ThrottleHalf + innerStep[j] < 0
                        /\ Throttle(j) = 0

(* C7 as stated: whenever the outer solve is converged, every residual of
   every node is within 1e-10. *)
C7_ConvergedWithinAtol ==
    outerStatus = "converged" =>
        \A n \in DOMAIN residuals : \A i \in Nodes : residuals[n][i] <= AtolExp

(* C7 amended: whenever the outer solve is converged, every residual of every
   node is within 1e-10 or within 1e-10 times the norm of the residuals at
   the first evaluation; the residuals are those of thrust_req and, unless
   ground_roll, alpha. *)
C7_ConvergedWithinAtolOrRtol ==
    outerStatus = "converged" =>
        /\ DOMAIN residuals = IF ground_roll THEN {"thrust_req"} ELSE {"alpha", "thrust_req"}
        /\ \A n \in DOMAIN residuals : \A i \in Nodes :
              \/ residuals[n][i] <= AtolExp
              \/ LET lo == ExpFloor + RtolExp
                     hi == ExpStart + 1
                 IN  ~DigitsLess(ShiftedDigits(Flat(norm0), RtolExp, lo, hi),
                                 OneDigit(residuals[n][i], lo, hi))

C7_Witness ==
    /\ outerStatus = "converged"
    /\ \E i \in Nodes : residuals["thrust_req"][i] > AtolExp
    /\ \E j \in Nodes : residuals["thrust_req"][j] <= AtolExp

(* C8: the outer solve never bounds thrust_req: after every outer Newton
   update thrust_req is the previous value plus the Newton step, also when
   that is negative or very large, in every mode. *)
C8_ThrustReqUnbounded ==
    [][(pc = "outer" /\ outerIter' = outerIter + 1) =>
          \A i \in Nodes :
              outputs'["thrust_req"][i] = ThrustReq(i) + outerStep'["thrust_req"][i]]_vars

C8_Witness ==
    /\ pc = "done"
    /\ \E i \in Nodes : ThrustReq(i) < 0
    /\ \E j \in Nodes : ThrustReq(j) > 10 * ThrustReqInit

(* C9: at every node dmass_dr = fuelflow * dt_dr, fuelflow being the negative
   total fuel flow rate; mass_rate belongs to the top-level group, runs after
   both solves, and is a subsystem of neither solver's group. *)
C9_MassRate ==
    Built =>
        /\ IndexOf(Top, "mass_rate") = Len(Top)
        /\ \A g \in DOMAIN children \ {"self"} : IndexOf(children[g], "mass_rate") = 0
        /\ promotes.mass_rate = "fuel_flow_rate_negative_total"
        /\ pc \in {"outer", "inner", "error"} => dmass_dr = Zeros
        /\ pc = "done" => \A i \in Nodes : dmass_dr[i] = fuelflow[i] * dt_dr[i]

C9_Witness ==
    /\ pc = "done"
    /\ balance_throttle
    /\ \E i, j \in Nodes : dt_dr[i] # dt_dr[j] /\ dmass_dr[i] # dmass_dr[j]
    /\ \A i \in Nodes : fuelflow[i] < 0 /\ dmass_dr[i] < 0

(* C10: every subsystem whose build_mission returns a system is added once,
   to one group: control_iter_group for an aerodynamics builder, else
   throttle_balance_group for a propulsion builder when balance_throttle is
   set, else the top-level group; one returning None is added nowhere.  Every
   builder is called with method 'cruise' and output_alpha False when clean is
   set, with method 'low_speed' and no output_alpha otherwise. *)
C10_SubsystemPlacement ==
    Built =>
        /\ Len(build_calls) = Len(core_subsystems)
        /\ \A k \in 1..Len(core_subsystems) :
              LET b      == core_subsystems[k]
                  places == UNION {{<<g, j>> : j \in {x \in 1..Len(children[g]) :
                                                          children[g][x] = b.name}} :
                                   g \in DOMAIN children}
                  want   == IF b.isAero THEN CIG
                            ELSE IF b.isProp /\ balance_throttle THEN TBG
                            ELSE "self"
              IN  /\ build_calls[k].name = b.name
                  /\ build_calls[k].kwargs.method = IF clean THEN "cruise" ELSE "low_speed"
                  /\ build_calls[k].kwargs.output_alpha = IF clean THEN "False" ELSE "absent"
                  /\ Cardinality(places) = IF b.builds THEN 1 ELSE 0
                  /\ \A p \in places : p[1] = want

C10_Witness ==
    /\ Built
    /\ clean
    /\ balance_throttle
    /\ \E k \in 1..Len(core_subsystems) :
          /\ core_subsystems[k].isProp /\ ~core_subsystems[k].isAero
          /\ IndexOf(children[TBG], core_subsystems[k].name) > 0
    /\ \E k \in 1..Len(core_subsystems) :
          /\ core_subsystems[k].isAero /\ core_subsystems[k].builds
          /\ IndexOf(children[CIG], core_subsystems[k].name) > 0
====
